---------------------------- MODULE Spec2Model ----------------------------
(***************************************************************************)
(* Model of temfpy/econometrics.py: the multinomial probit estimation      *)
(* pipeline (_multinomial_processing, _multinomial_probit_loglikeobs,      *)
(* _multinomial_probit_loglike, multinomial_probit).                       *)
(*                                                                         *)
(* pandas objects (frames, Series) are sequences (1-based); numpy arrays   *)
(* are functions over 0..n-1, as the code indexes them.  Real numbers are  *)
(* integers in an arbitrary unit; a probability is either exactly zero or  *)
(* a power of ten, and a logarithm is counted in units of ln(10).          *)
(***************************************************************************)
EXTENDS Integers, Sequences, FiniteSets, TLC

(***************************************************************************)
(* Bounds of the model.                                                    *)
(***************************************************************************)
MaxObs == 3        \* rows of the data frame
MaxY == 2          \* the outcome column takes values in 0..MaxY
MaxNA == 1         \* incomplete rows of the data frame
MaxIter == 1       \* criterion evaluations of the maximizer
TinyExp == 300     \* 1e-300: a representable probability below the floor

Formulas == {0, 1}      \* "y ~ 1" and "y ~ g"
BethaVals == {0, 1}     \* coefficient values
CovVals == {0, 1}       \* packed covariance values

(***************************************************************************)
(* Program constants.                                                      *)
(***************************************************************************)
FloorExp == 250    \* the clipping floor is 1e-250

CovStructures == {"iid", "free", "other", "gauss_integration"}
IntegrationMethods == {"mc_integration", "smooth_mc_integration", "gauss_integration"}
Algorithms == {"scipy_lbfgsb", "scipy_slsqp"}

(***************************************************************************)
(* numpy helpers.                                                          *)
(***************************************************************************)
Size(a) == Cardinality(DOMAIN a)

\* Series.to_numpy() / DataFrame.to_numpy().reshape(len): 1-based -> 0-based
ToNumpy(s) == [i \in 0..(Len(s) - 1) |-> s[i + 1]]

\* np.unique: the set of distinct entries
Unique(a) == {a[i] : i \in DOMAIN a}

Min(S) == CHOOSE m \in S : \A v \in S : m <= v

\* np.zeros((r, c))
Zeros(r, c) == [i \in 0..(r - 1) |-> [j \in 0..(c - 1) |-> 0]]

\* np.eye(n)
Eye(n) == [i \in 0..(n - 1) |-> [j \in 0..(n - 1) |-> IF i = j THEN 1 ELSE 0]]

\* np.ones((n, n))
Ones(n) == [i \in 0..(n - 1) |-> [j \in 0..(n - 1) |-> 1]]

\* elementwise matrix sum
MatAdd(A, B) == [i \in DOMAIN A |-> [j \in DOMAIN A[i] |-> A[i][j] + B[i][j]]]

RECURSIVE DotRow(_, _, _, _)
\* sum over v < n of xrow[v] * B[v][c]
DotRow(xrow, B, c, n) ==
    IF n = 0 THEN 0 ELSE DotRow(xrow, B, c, n - 1) + xrow[n - 1] * B[n - 1][c]

\* x.dot(bethas)
Dot(X, B, n_var, n_choices) ==
    [i \in DOMAIN X |-> [c \in 0..(n_choices - 1) |-> DotRow(X[i], B, c, n_var)]]

RECURSIVE Power(_, _)
Power(b, e) == IF e = 0 THEN 1 ELSE b * Power(b, e - 1)

(***************************************************************************)
(* Formula parser (patsy.dmatrices), at its interface: a formula is the    *)
(* number of covariate terms, "y ~ 1", "y ~ g", "y ~ g + I(g**2)", ...;    *)
(* rows with a missing value are dropped; the design matrix has an         *)
(* Intercept column followed by the terms.                                 *)
(***************************************************************************)
TermName(t) == IF t = 0 THEN "Intercept" ELSE "g" \o ToString(t)

Columns(formula) == [t \in 1..(formula + 1) |-> TermName(t - 1)]

Complete(row) == ~row.na

Dmatrices(formula, frame) ==
    LET rows == SelectSeq(frame, Complete)
    IN  [y |-> [i \in 1..Len(rows) |-> rows[i].y],
         x |-> [i \in 1..Len(rows) |->
                   [t \in 1..(formula + 1) |-> Power(rows[i].g, t - 1)]],
         g |-> [i \in 1..Len(rows) |-> rows[i].g]]

\* pd.concat([y, x], axis=1).dropna()
ConcatDropna(parsed) ==
    SelectSeq([i \in 1..Len(parsed.y) |->
                  [y |-> parsed.y[i], g |-> parsed.g[i], na |-> FALSE]],
              Complete)

(***************************************************************************)
(* Parameter structuring (lines 46-88).                                    *)
(***************************************************************************)
RECURSIVE ChoiceIndexTuples(_, _, _)
\* for choice in range(n_choices - 1): index_tuples += [(choice_c, betha_name) ...]
ChoiceIndexTuples(choice, n_choices, var_names) ==
    IF choice >= n_choices - 1 THEN <<>>
    ELSE [v \in 1..Len(var_names) |->
             <<"choice_" \o ToString(choice), "betha_" \o var_names[v]>>]
         \o ChoiceIndexTuples(choice + 1, n_choices, var_names)

RECURSIVE PackLower(_, _, _, _)
\* for i: for j: if j <= i: cov.append(covariance[i, j])
PackLower(covariance, n, i, j) ==
    IF i >= n THEN <<>>
    ELSE IF j >= n THEN PackLower(covariance, n, i + 1, 0)
    ELSE (IF j <= i THEN <<covariance[i][j]>> ELSE <<>>)
         \o PackLower(covariance, n, i, j + 1)

\* covariance labels counted for a matrix one row too small
CovIndexTuples_short(n_choices) ==
    [i \in 1..(((n_choices - 1) * (n_choices - 2)) \div 2) |-> <<"covariance", i - 1>>]

\* j = n_choices * (n_choices - 1) / 2; [("covariance", i) for i in range(int(j))]
CovIndexTuples(n_choices) ==
    [i \in 1..((n_choices * (n_choices - 1)) \div 2) |-> <<"covariance", i - 1>>]

\* the labeled Series params_sr built from the random draw bethas
BuildParams(cov_struct, var_names, n_choices, bethas_draw) ==
    IF cov_struct = "iid"
    THEN [index |-> ChoiceIndexTuples(0, n_choices, var_names),
          value |-> bethas_draw]
    ELSE [index |-> ChoiceIndexTuples(0, n_choices, var_names)
                        \o CovIndexTuples(n_choices),
          value |-> bethas_draw \o PackLower(Eye(n_choices - 1), n_choices - 1, 0, 0)]

\* y - y.min()
Rebase(ycol) == [i \in 1..Len(ycol) |-> ycol[i] - Min({ycol[k] : k \in 1..Len(ycol)})]

\* a configuration check that lets every structure but "iid" pass
InvalidCovStructure_lax(cov_struct) == (cov_struct # "iid") /\ (cov_struct = "free")

\* the configuration check at the head of each entry point
InvalidCovStructure(cov_struct) == (cov_struct # "iid") /\ (cov_struct # "free")

(***************************************************************************)
(* Likelihood evaluator (lines 133-171).                                   *)
(***************************************************************************)
RECURSIVE SelectLevel(_, _, _)
\* params["value"][key]: the values whose first-level label is key, in order
SelectLevel(params, key, p) ==
    IF p > Len(params.index) THEN <<>>
    ELSE (IF params.index[p][1] = key THEN <<params.value[p]>> ELSE <<>>)
         \o SelectLevel(params, key, p + 1)

RECURSIVE FillLower_offset(_, _, _, _, _)
\* the offset advanced by i instead of k = i + 1
FillLower_offset(cov, covariance, i, a, n) ==
    IF i >= n THEN cov
    ELSE FillLower_offset([cov EXCEPT ![i] =
                              [j \in 0..(n - 1) |->
                                  IF j < i + 1 THEN covariance[a + j] ELSE cov[i][j]]],
                          covariance, i + 1, a + i, n)

RECURSIVE FillLower(_, _, _, _, _)
\* a = 0; for i: k = i + 1; cov[i, :(i + 1)] = covariance[a:(a + k)]; a += k
FillLower(cov, covariance, i, a, n) ==
    IF i >= n THEN cov
    ELSE LET k == i + 1
         IN  FillLower([cov EXCEPT ![i] =
                           [j \in 0..(n - 1) |->
                               IF j < i + 1 THEN covariance[a + j] ELSE cov[i][j]]],
                       covariance, i + 1, a + k, n)

\* the mirroring loop left out
MirrorUpper_none(cov, i, n) == cov

RECURSIVE MirrorUpper(_, _, _)
\* for i: cov[i, (i + 1):] = cov[(i + 1):, i]
MirrorUpper(cov, i, n) ==
    IF i >= n THEN cov
    ELSE MirrorUpper([cov EXCEPT ![i] =
                         [j \in 0..(n - 1) |->
                             IF j >= i + 1 THEN cov[j][i] ELSE cov[i][j]]],
                     i + 1, n)

\* the covariance matrix of lines 136-151
BuildCov(cov_struct, params, n_choices) ==
    IF cov_struct = "iid"
    THEN MatAdd(Eye(n_choices - 1), Ones(n_choices - 1))
    ELSE LET covariance == ToNumpy(SelectLevel(params, "covariance", 1))
         IN  MirrorUpper(FillLower(Zeros(n_choices - 1, n_choices - 1),
                                   covariance, 0, 0, n_choices - 1),
                         0, n_choices - 1)

RECURSIVE FillBethas_shift(_, _, _, _)
\* block i written to column i + 1
FillBethas_shift(bethas, params, i, n_choices) ==
    IF i >= n_choices - 1 THEN bethas
    ELSE LET block == ToNumpy(SelectLevel(params, "choice_" \o ToString(i), 1))
         IN  FillBethas_shift(
                 [v \in DOMAIN bethas |-> [bethas[v] EXCEPT ![i + 1] = block[v]]],
                 params, i + 1, n_choices)

RECURSIVE FillBethas(_, _, _, _)
\* for i in range(n_choices - 1): bethas[:, i] = params["value"]["choice_i"].to_numpy()
FillBethas(bethas, params, i, n_choices) ==
    IF i >= n_choices - 1 THEN bethas
    ELSE LET block == ToNumpy(SelectLevel(params, "choice_" \o ToString(i), 1))
         IN  FillBethas([v \in DOMAIN bethas |-> [bethas[v] EXCEPT ![i] = block[v]]],
                        params, i + 1, n_choices)

\* the coefficient matrix of lines 153-156
BuildBethas(params, n_var, n_choices) ==
    FillBethas(Zeros(n_var, n_choices), params, 0, n_choices)

\* the branch the dispatch of lines 160-165 takes
DispatchBranch(cov_struct) ==
    IF cov_struct = "gauss_integration" THEN "if" ELSE "else"

\* a dispatch that takes the quadrature branch under the "iid" structure
DispatchRoutine_iid(cov_struct, integ_method) ==
    IF cov_struct = "iid" THEN "gauss_integration" ELSE integ_method

\* the routine the dispatch of lines 160-165 looks up
DispatchRoutine(cov_struct, integ_method) ==
    IF cov_struct = "gauss_integration" THEN "gauss_integration" ELSE integ_method

\* probabilities: exactly zero, or 10^(-exp)
PZero == [zero |-> TRUE, exp |-> 0]
P10(e) == [zero |-> FALSE, exp |-> e]
ProbVals == {PZero, P10(TinyExp), P10(0)}

\* p < 1e-250
BelowFloor(p) == p.zero \/ p.exp > FloorExp

\* ndarray.clip(min=1e-250): a NEW array, the receiver is left as it is
Clip(a) == [i \in DOMAIN a |-> IF BelowFloor(a[i]) THEN P10(FloorExp) ELSE a[i]]

\* line 167, the statement `choice_prob_obs.clip(min=1e-250)`: the clipped
\* copy is not bound to any name, so choice_prob_obs is what it was
ClipStatement(a) == LET discarded == Clip(a) IN a

\* np.log of one probability, in units of ln(10); log(0) is -inf (no raise)
LogOf(p) == IF p.zero THEN [neginf |-> TRUE, val |-> 0]
            ELSE [neginf |-> FALSE, val |-> 0 - p.exp]

\* np.log, elementwise
Log(a) == [i \in DOMAIN a |-> LogOf(a[i])]

RECURSIVE SumVals(_, _)
SumVals(a, n) == IF n = 0 THEN 0 ELSE SumVals(a, n - 1) + a[n - 1].val

\* ndarray.sum(): -inf as soon as one entry is -inf
Sum(a) == IF \E i \in DOMAIN a : a[i].neginf
          THEN [neginf |-> TRUE, val |-> 0]
          ELSE [neginf |-> FALSE, val |-> SumVals(a, Size(a))]


(***************************************************************************)
(* Inputs.  A data frame is a sequence of rows with an outcome y, a        *)
(* covariate g (the row number) and a flag for a missing value; rows are   *)
(* listed by ascending outcome, and the complete rows show at least two    *)
(* distinct outcomes (a choice model has n_choices >= 2).                  *)
(***************************************************************************)
CountNA(frame) == Cardinality({i \in 1..Len(frame) : frame[i].na})

Outcomes(frame) == {frame[i].y : i \in {k \in 1..Len(frame) : ~frame[k].na}}

Frames ==
    UNION {{[i \in 1..n |-> [y |-> ys[i], g |-> i, na |-> nas[i]]] :
               ys \in {s \in [1..n -> 0..MaxY] : \A i \in 1..(n - 1) : s[i] <= s[i + 1]},
               nas \in {b \in [1..n -> BOOLEAN] :
                           Cardinality({i \in 1..n : b[i]}) <= MaxNA}} :
           n \in 1..MaxObs}

ValidFrames == {f \in Frames : Cardinality(Outcomes(f)) >= 2}

\* labeled parameter vectors of the shape BuildParams gives, with any values
ParamVectors(cov_struct, names, nc) ==
    LET nb == Len(names) * (nc - 1)
        ncov == IF cov_struct = "iid" THEN 0 ELSE (nc * (nc - 1)) \div 2
        shape == BuildParams(cov_struct, names, nc, [k \in 1..nb |-> 0]).index
    IN  {[index |-> shape, value |-> b \o c] :
            b \in [1..nb -> BethaVals], c \in [1..ncov -> CovVals]}

(***************************************************************************)
(* State.                                                                  *)
(***************************************************************************)
VARIABLES
    pc,                  \* where the call stands
    entry,               \* the entry point the caller invoked
    cov_structure, integration_method, algorithm,
    y, x,                \* outcome and design matrix
    var_names,           \* list(x.columns)
    n_var, n_choices,
    params,              \* labeled parameter vector [index, value]
    cov, bethas, u_prime,
    choice_prob_obs, loglikeobs,
    routine_called,      \* the last call of an integration routine
    loglike,             \* the last value of _multinomial_probit_loglike
    constraints,
    maximize_args,       \* what maximize() was called with
    max_result,          \* the result object maximize() produced
    result,              \* what multinomial_probit returned
    parse_calls, integration_calls, maximize_calls, n_iter

vars == <<pc, entry, cov_structure, integration_method, algorithm,
          y, x, var_names, n_var, n_choices, params, cov, bethas, u_prime,
          choice_prob_obs, loglikeobs, routine_called, loglike, constraints,
          maximize_args, max_result, result,
          parse_calls, integration_calls, maximize_calls, n_iter>>

NoParams == [index |-> <<>>, value |-> <<>>]
NoCall == [branch |-> "", name |-> "", u_prime |-> <<>>, cov |-> <<>>, y |-> <<>>]
NoLog == [neginf |-> FALSE, val |-> 0, set |-> FALSE]
NoResult == [params |-> NoParams, success |-> FALSE, set |-> FALSE]
NoArgs == [criterion |-> "", algorithm |-> "", constraints |-> <<>>,
           cov_structure |-> "", integration_method |-> ""]

Init ==
    /\ pc = "idle"
    /\ entry = ""
    /\ cov_structure = ""
    /\ integration_method = ""
    /\ algorithm = ""
    /\ y = <<>>
    /\ x = <<>>
    /\ var_names = <<>>
    /\ n_var = 0
    /\ n_choices = 0
    /\ params = NoParams
    /\ cov = <<>>
    /\ bethas = <<>>
    /\ u_prime = <<>>
    /\ choice_prob_obs = <<>>
    /\ loglikeobs = <<>>
    /\ routine_called = NoCall
    /\ loglike = NoLog
    /\ constraints = <<>>
    /\ maximize_args = NoArgs
    /\ max_result = NoResult
    /\ result = NoResult
    /\ parse_calls = 0
    /\ integration_calls = 0
    /\ maximize_calls = 0
    /\ n_iter = 0

procVars == <<y, x, var_names, n_var, n_choices, params>>
llVars == <<cov, bethas, u_prime, choice_prob_obs, loglikeobs, routine_called>>
maxVars == <<loglike, constraints, maximize_args, max_result, result, n_iter>>

(***************************************************************************)
(* _multinomial_processing (lines 13-96), called with (f, d, cs); control  *)
(* goes to next_pc when it returns.                                        *)
(***************************************************************************)
multinomial_processing(f, d, cs, next_pc) ==
    IF InvalidCovStructure(cs)
    THEN \* lines 39-40: sys.exit
         /\ pc' = "exited"
         /\ UNCHANGED <<procVars, parse_calls>>
    ELSE \* lines 42-44: parse, drop incomplete rows, parse again
         LET first == Dmatrices(f, d)
             cleaned == ConcatDropna(first)
             second == Dmatrices(f, cleaned)
             names == Columns(f)
             \* lines 46-47
             nv == Len(names)
             nc == Cardinality(Unique(ToNumpy(second.y)))
         IN  \* line 49: np.random.rand(...) * 0.1
             /\ \E draw \in [1..(nv * (nc - 1)) -> BethaVals] :
                   \* lines 51-88
                   params' = BuildParams(cs, names, nc, draw)
             /\ var_names' = names
             /\ n_var' = nv
             /\ n_choices' = nc
             \* lines 90-96
             /\ y' = ToNumpy(Rebase(second.y))
             /\ x' = ToNumpy([i \in 1..Len(second.x) |-> ToNumpy(second.x[i])])
             /\ parse_calls' = parse_calls + 2
             /\ pc' = next_pc

\* a caller invokes _multinomial_processing(formula, data, cov_structure)
Call_multinomial_processing ==
    /\ pc = "idle"
    /\ \E f \in Formulas, d \in ValidFrames, cs \in CovStructures :
          /\ cov_structure' = cs
          /\ multinomial_processing(f, d, cs, "returned")
    /\ entry' = "_multinomial_processing"
    /\ UNCHANGED <<integration_method, algorithm, llVars, maxVars,
                   integration_calls, maximize_calls>>

(***************************************************************************)
(* _multinomial_probit_loglikeobs (lines 99-171).                          *)
(***************************************************************************)
\* a caller invokes _multinomial_probit_loglikeobs(params, y, x,
\* cov_structure, integration_method) with arguments of matching shapes
Call_loglikeobs ==
    /\ pc = "idle"
    /\ \E f \in Formulas, d \in ValidFrames, cs \in CovStructures,
          im \in IntegrationMethods :
          LET parsed == Dmatrices(f, d)
              yy == ToNumpy(parsed.y)
          IN  /\ y' = yy
              /\ x' = ToNumpy([i \in 1..Len(parsed.x) |-> ToNumpy(parsed.x[i])])
              /\ cov_structure' = cs
              /\ integration_method' = im
              /\ \E p \in ParamVectors(cs, Columns(f), Cardinality(Unique(yy))) :
                    params' = p
    /\ entry' = "_multinomial_probit_loglikeobs"
    /\ pc' = "ll_called"
    /\ UNCHANGED <<algorithm, var_names, n_var, n_choices, llVars, maxVars,
                   parse_calls, integration_calls, maximize_calls>>

\* the body of _multinomial_probit_loglikeobs up to the call of the
\* integration routine (or the exit)
loglikeobs_Run ==
    /\ pc = "ll_called"
    /\ IF InvalidCovStructure(cov_structure)
       THEN \* lines 130-131: sys.exit
            /\ pc' = "exited"
            /\ UNCHANGED <<n_var, n_choices, llVars, integration_calls>>
       ELSE LET \* lines 133-134
                nv == Size(x[0])
                nc == Cardinality(Unique(y))
                \* lines 136-151
                cv == BuildCov(cov_structure, params, nc)
                \* lines 153-158
                B == BuildBethas(params, nv, nc)
                U == Dot(x, B, nv, nc)
            IN  /\ n_var' = nv
                /\ n_choices' = nc
                /\ cov' = cv
                /\ bethas' = B
                /\ u_prime' = U
                \* lines 160-165: the routine is looked up and called
                /\ routine_called' =
                      [branch |-> DispatchBranch(cov_structure),
                       name |-> DispatchRoutine(cov_structure, integration_method),
                       u_prime |-> U, cov |-> cv, y |-> y]
                /\ integration_calls' = integration_calls + 1
                /\ pc' = "ll_integrating"
                /\ UNCHANGED <<choice_prob_obs, loglikeobs>>
    /\ UNCHANGED <<entry, cov_structure, integration_method, algorithm,
                   y, x, var_names, params, maxVars, parse_calls, maximize_calls>>

\* the integration routine returns one probability per observation; lines
\* 167-171: clip statement, logarithm, return of loglikeobs (the arguments
\* and the other locals end with the call)
loglikeobs_Return ==
    /\ pc = "ll_integrating"
    /\ \E probs \in [DOMAIN y -> ProbVals] :
          /\ choice_prob_obs' = ClipStatement(probs)
          /\ loglikeobs' = Log(ClipStatement(probs))
    /\ params' = NoParams
    /\ cov' = <<>>
    /\ bethas' = <<>>
    /\ u_prime' = <<>>
    /\ routine_called' = NoCall
    /\ pc' = "ll_returned"
    /\ UNCHANGED <<entry, cov_structure, integration_method, algorithm,
                   y, x, var_names, n_var, n_choices, maxVars,
                   parse_calls, integration_calls, maximize_calls>>

(***************************************************************************)
(* multinomial_probit (lines 208-302).                                     *)
(***************************************************************************)
\* a caller invokes multinomial_probit(formula, data, cov_structure,
\* integration_method, algorithm): lines 273-276
Call_multinomial_probit ==
    /\ pc = "idle"
    /\ \E f \in Formulas, d \in ValidFrames, cs \in CovStructures,
          im \in IntegrationMethods, alg \in Algorithms :
          /\ cov_structure' = cs
          /\ integration_method' = im
          /\ algorithm' = alg
          /\ IF InvalidCovStructure(cs)
             THEN \* lines 273-274: sys.exit
                  /\ pc' = "exited"
                  /\ UNCHANGED <<procVars, parse_calls>>
             ELSE \* line 276
                  multinomial_processing(f, d, cs, "prepared")
    /\ entry' = "multinomial_probit"
    /\ UNCHANGED <<llVars, maxVars, integration_calls, maximize_calls>>

\* a constraint list that fixes the second packed entry
BuildConstraints_second(cov_struct) ==
    IF cov_struct = "iid" THEN <<>>
    ELSE <<[loc |-> <<"covariance">>, type |-> "covariance", value |-> 0],
           [loc |-> <<"covariance", 1>>, type |-> "fixed", value |-> 1]>>

\* lines 278-287: the constraint list
BuildConstraints(cov_struct) ==
    IF cov_struct = "iid" THEN <<>>
    ELSE <<[loc |-> <<"covariance">>, type |-> "covariance", value |-> 0],
           [loc |-> <<"covariance", 0>>, type |-> "fixed", value |-> 1]>>

\* lines 278-300: constraints are built and maximize is called with the
\* start parameters
mp_Maximize ==
    /\ pc = "prepared"
    /\ constraints' = BuildConstraints(cov_structure)
    /\ maximize_args' = [criterion |-> "_multinomial_probit_loglike",
                         algorithm |-> algorithm,
                         constraints |-> BuildConstraints(cov_structure),
                         cov_structure |-> cov_structure,
                         integration_method |-> integration_method]
    /\ maximize_calls' = maximize_calls + 1
    /\ pc' = "optimizing"
    /\ UNCHANGED <<entry, cov_structure, integration_method, algorithm, procVars,
                   llVars, loglike, max_result, result, n_iter,
                   parse_calls, integration_calls>>

\* a driver that starts over when the maximizer did not converge
mp_Return_retry ==
    /\ pc = "maximized"
    /\ IF max_result.success
       THEN result' = max_result /\ pc' = "returned"
       ELSE result' = result /\ pc' = "prepared"
    /\ UNCHANGED <<entry, cov_structure, integration_method, algorithm, procVars,
                   llVars, loglike, constraints, maximize_args, max_result, n_iter,
                   parse_calls, integration_calls, maximize_calls>>

\* line 302: return result
mp_Return ==
    /\ pc = "maximized"
    /\ result' = max_result
    /\ pc' = "returned"
    /\ UNCHANGED <<entry, cov_structure, integration_method, algorithm, procVars,
                   llVars, loglike, constraints, maximize_args, max_result, n_iter,
                   parse_calls, integration_calls, maximize_calls>>

(***************************************************************************)
(* The external maximizer, at its interface: it evaluates the criterion    *)
(* _multinomial_probit_loglike at parameter vectors of the shape it was    *)
(* given that satisfy the "fixed" constraints it was given, and returns a  *)
(* result object.                                                          *)
(***************************************************************************)
SatisfiesFixed(p, cons) ==
    \A c \in 1..Len(cons) :
        cons[c].type = "fixed" =>
            \A k \in 1..Len(p.index) :
                (p.index[k][1] = cons[c].loc[1] /\ p.index[k][2] = cons[c].loc[2])
                    => p.value[k] = cons[c].value

\* the vectors the maximizer works with: the labels of the start vector,
\* any values that meet the "fixed" constraints
Candidates(cov_struct, names, nc, cons) ==
    {p \in ParamVectors(cov_struct, names, nc) : SatisfiesFixed(p, cons)}

\* the maximizer calls the criterion with the kwargs of lines 293-298:
\* _multinomial_probit_loglike calls _multinomial_probit_loglikeobs
max_Evaluate ==
    /\ pc = "optimizing"
    /\ n_iter < MaxIter
    /\ \E cand \in Candidates(maximize_args.cov_structure, var_names, n_choices,
                              maximize_args.constraints) : params' = cand
    /\ loglike' = NoLog
    /\ n_iter' = n_iter + 1
    /\ pc' = "ll_called"
    /\ UNCHANGED <<entry, cov_structure, integration_method, algorithm,
                   y, x, var_names, n_var, n_choices, llVars,
                   constraints, maximize_args, max_result, result,
                   parse_calls, integration_calls, maximize_calls>>

\* lines 203-205: _multinomial_probit_loglike sums the entries and returns
\* the total to the maximizer
loglike_Return ==
    /\ pc = "ll_returned"
    /\ entry = "multinomial_probit"
    /\ LET total == Sum(loglikeobs)
       IN  loglike' = [neginf |-> total.neginf, val |-> total.val, set |-> TRUE]
    /\ choice_prob_obs' = <<>>
    /\ loglikeobs' = <<>>
    /\ pc' = "optimizing"
    /\ UNCHANGED <<entry, cov_structure, integration_method, algorithm, procVars,
                   cov, bethas, u_prime, routine_called,
                   constraints, maximize_args, max_result, result, n_iter,
                   parse_calls, integration_calls, maximize_calls>>

\* maximize returns its result object, converged or not
max_Return ==
    /\ pc = "optimizing"
    /\ n_iter >= 1
    /\ \E ok \in BOOLEAN,
          fitted \in Candidates(maximize_args.cov_structure, var_names, n_choices,
                                maximize_args.constraints) :
          max_result' = [params |-> fitted, success |-> ok, set |-> TRUE]
    /\ pc' = "maximized"
    /\ UNCHANGED <<entry, cov_structure, integration_method, algorithm, procVars,
                   llVars, loglike, constraints, maximize_args, result, n_iter,
                   parse_calls, integration_calls, maximize_calls>>

Next ==
    \/ Call_multinomial_processing
    \/ Call_loglikeobs
    \/ loglikeobs_Run
    \/ loglikeobs_Return
    \/ Call_multinomial_probit
    \/ mp_Maximize
    \/ max_Evaluate
    \/ loglike_Return
    \/ max_Return
    \/ mp_Return

Spec == Init /\ [][Next]_vars

(***************************************************************************)
(* Properties.                                                             *)
(***************************************************************************)
MP == "multinomial_probit"
PROC == "_multinomial_processing"
LLOBS == "_multinomial_probit_loglikeobs"

\* the packed covariance entry k (0-based) of the labeled vector
PackedAt(k) == params.value[n_var * (n_choices - 1) + k + 1]

\* the value labeled ("covariance", 0) is 1
FirstCovarianceIsOne(p) ==
    \A k \in 1..Len(p.index) :
        (p.index[k][1] = "covariance" /\ p.index[k][2] = 0) => p.value[k] = 1

\* C1: every probability is clipped to the floor 1e-250 before the logarithm:
\* no log-likelihood entry is -infinity or below log(1e-250), and the total
\* log-likelihood handed to the maximizer is finite.
C1_ClippedLogFinite ==
    /\ pc = "ll_returned" =>
          \A i \in DOMAIN loglikeobs :
              /\ ~loglikeobs[i].neginf
              /\ loglikeobs[i].val >= 0 - FloorExp
    /\ loglike.set => ~loglike.neginf

\* C2: at each of the three entry points a covariance structure other than
\* "iid" or "free" ends the call with the configuration error before anything
\* else: nothing is parsed, no integration routine and no maximizer is called,
\* and nothing is returned.
C2_InvalidStructureExitsFirst ==
    (entry # "" /\ cov_structure \notin {"iid", "free"}) =>
        /\ pc \in {"exited", "ll_called"}
        /\ choice_prob_obs = <<>>
        /\ (pc = "ll_called" => entry = LLOBS)
        /\ parse_calls = 0
        /\ integration_calls = 0
        /\ maximize_calls = 0
        /\ routine_called = NoCall
        /\ loglikeobs = <<>>
        /\ result = NoResult
        /\ max_result = NoResult
        /\ (entry # LLOBS => (y = <<>> /\ x = <<>> /\ params = NoParams))

C2_Witness ==
    /\ entry = MP
    /\ cov_structure = "other"
    /\ pc = "exited"
    /\ parse_calls = 0
    /\ y = <<>>

\* C3: after the data preparation every choice code lies in 0..m-1, m the
\* number of distinct outcomes.
C3_ChoiceCodesInRange ==
    (entry \in {MP, PROC} /\ parse_calls = 2) =>
        \A i \in DOMAIN y : y[i] \in 0..(n_choices - 1)

\* C4: the covariance matrix the likelihood evaluator uses is an
\* (m-1) x (m-1) symmetric matrix under both structures, and under "iid" it
\* is I + 11^T.
C4_CovSymmetric ==
    pc = "ll_integrating" =>
        /\ DOMAIN cov = 0..(n_choices - 2)
        /\ \A i \in 0..(n_choices - 2) :
              /\ DOMAIN cov[i] = 0..(n_choices - 2)
              /\ \A j \in 0..(n_choices - 2) : cov[i][j] = cov[j][i]
        /\ cov_structure = "iid" =>
              \A i, j \in 0..(n_choices - 2) : cov[i][j] = IF i = j THEN 2 ELSE 1

C4_Witness ==
    /\ pc = "ll_integrating"
    /\ cov_structure = "free"
    /\ n_choices = 3
    /\ cov[1][0] = 1
    /\ cov[0][1] = 1
    /\ cov[0][0] = 0

\* C5: under "free", re-reading the lower triangle (with the diagonal) of the
\* reconstructed matrix row by row gives back the packed vector: row i holds
\* the packed entries i(i+1)/2 .. i(i+1)/2 + i in columns 0..i, and every
\* packed entry is read exactly once.
C5_PackRoundTrip ==
    (pc = "ll_integrating" /\ cov_structure = "free") =>
        LET n == n_choices - 1
            L == Len(params.value) - n_var * n
        IN  /\ L = (n_choices * (n_choices - 1)) \div 2
            /\ \A i \in 0..(n - 1) : \A j \in 0..i :
                  cov[i][j] = PackedAt((i * (i + 1)) \div 2 + j)
            /\ \A k \in 0..(L - 1) :
                  Cardinality({ij \in (0..(n - 1)) \X (0..(n - 1)) :
                                  /\ ij[2] <= ij[1]
                                  /\ (ij[1] * (ij[1] + 1)) \div 2 + ij[2] = k}) = 1

C5_Witness ==
    /\ pc = "ll_integrating"
    /\ cov_structure = "free"
    /\ n_choices = 3
    /\ PackedAt(0) = 0 /\ PackedAt(1) = 1 /\ PackedAt(2) = 0
    /\ cov[1][0] = 1
    /\ cov[1][1] = 0

\* C6: the start vector of the data preparation has n_var*(n_choices-1)
\* entries under "iid" and n_choices*(n_choices-1)/2 more under "free", as
\* many labels as values, coefficient labels (choice_j, betha_name) for
\* j in 0..n_choices-2, and under "free" the row-major lower triangle of the
\* identity labeled (covariance, 0..).
C6_StartVectorShape ==
    ((entry = PROC /\ pc = "returned") \/ pc = "prepared") =>
        LET nb == n_var * (n_choices - 1)
            ncov == (n_choices * (n_choices - 1)) \div 2
        IN  /\ n_var >= 1
            /\ n_choices >= 2
            /\ Len(params.index) = Len(params.value)
            /\ Len(params.value) = IF cov_structure = "iid" THEN nb ELSE nb + ncov
            /\ \A j \in 0..(n_choices - 2) : \A v \in 1..n_var :
                  params.index[j * n_var + v] =
                      <<"choice_" \o ToString(j), "betha_" \o var_names[v]>>
            /\ cov_structure = "free" =>
                  /\ \A k \in 0..(ncov - 1) :
                        params.index[nb + k + 1] = <<"covariance", k>>
                  /\ \A i \in 0..(n_choices - 2) : \A j \in 0..i :
                        PackedAt((i * (i + 1)) \div 2 + j) = IF i = j THEN 1 ELSE 0

C6_Witness ==
    /\ entry = PROC
    /\ pc = "returned"
    /\ cov_structure = "free"
    /\ n_choices = 2
    /\ n_var = 2
    /\ Len(params.value) = 3
    /\ params.index[3] = <<"covariance", 0>>

\* C7: the driver hands the maximizer two constraints under "free" (validity
\* of the covariance slice; (covariance, 0) fixed to 1.0) and none under
\* "iid"; the fixed entry is the one that becomes M[0][0], so M[0][0] = 1 for
\* every parameter vector that meets the constraint, which the maximizer's
\* vectors and the start vector do.
C7_FirstEntryIdentified ==
    /\ maximize_calls >= 1 =>
          /\ maximize_args.constraints = constraints
          /\ cov_structure = "iid" => constraints = <<>>
          /\ cov_structure = "free" =>
                /\ Len(constraints) = 2
                /\ constraints[1].type = "covariance"
                /\ constraints[1].loc = <<"covariance">>
                /\ constraints[2].type = "fixed"
                /\ constraints[2].loc = <<"covariance", 0>>
                /\ constraints[2].value = 1
    /\ (pc = "ll_integrating" /\ cov_structure = "free" /\ FirstCovarianceIsOne(params))
          => cov[0][0] = 1
    /\ (entry = MP /\ cov_structure = "free" /\ pc \in {"prepared", "ll_called", "ll_integrating"})
          => FirstCovarianceIsOne(params)
    /\ (max_result.set /\ cov_structure = "free")
          => FirstCovarianceIsOne(max_result.params)

C7_Witness ==
    /\ entry = MP
    /\ pc = "ll_integrating"
    /\ cov_structure = "free"
    /\ n_choices = 3
    /\ cov[0][0] = 1
    /\ cov[1][1] = 0
    /\ Len(constraints) = 2

\* C8: the coefficient matrix is n_var x n_choices, its column j < n_choices-1
\* is the labeled block choice_j, its reference column n_choices-1 is zero
\* whatever the parameters, and so is the reference column of u' = x.B.
C8_ReferenceColumnZero ==
    pc = "ll_integrating" =>
        /\ DOMAIN bethas = 0..(n_var - 1)
        /\ \A v \in 0..(n_var - 1) :
              /\ DOMAIN bethas[v] = 0..(n_choices - 1)
              /\ bethas[v][n_choices - 1] = 0
              /\ \A j \in 0..(n_choices - 2) :
                    bethas[v][j] = params.value[j * n_var + v + 1]
        /\ \A i \in DOMAIN u_prime : u_prime[i][n_choices - 1] = 0

C8_Witness ==
    /\ pc = "ll_integrating"
    /\ n_var = 2
    /\ n_choices = 3
    /\ bethas[0][0] = 0
    /\ bethas[1][0] = 1
    /\ bethas[1][1] = 1
    /\ u_prime[0][1] >= 1
    /\ u_prime[0][2] = 0

\* C9: in a call of multinomial_probit with a valid structure the data
\* preparation is complete before maximize is called, maximize is called
\* exactly once with the caller's algorithm, the criterion is evaluated only
\* inside that call, and the driver returns the maximizer's result object as
\* it is, converged or not.
C9_DriverOrder ==
    /\ maximize_calls <= 1
    /\ pc = "prepared" =>
          /\ maximize_calls = 0
          /\ integration_calls = 0
          /\ parse_calls = 2
          /\ params # NoParams
    /\ maximize_calls = 1 =>
          /\ entry = MP
          /\ parse_calls = 2
          /\ maximize_args.algorithm = algorithm
          /\ maximize_args.criterion = "_multinomial_probit_loglike"
    /\ (entry = MP /\ pc \in {"optimizing", "ll_called", "ll_integrating", "ll_returned", "maximized"})
          => (maximize_calls = 1 /\ result = NoResult)
    /\ (entry = MP /\ integration_calls >= 1) => maximize_calls = 1
    /\ max_result.set => pc \in {"maximized", "returned"}
    /\ (entry = MP /\ pc = "returned") =>
          /\ maximize_calls = 1
          /\ max_result.set
          /\ result = max_result

C9_Witness ==
    /\ entry = MP
    /\ pc = "returned"
    /\ result.set
    /\ ~result.success
    /\ result = max_result
    /\ maximize_calls = 1

\* C10: once the structure has passed validation, the integration routine
\* called is the one integration_method names, once per evaluation, with
\* (u', covariance, y); the branch on cov_structure = "gauss_integration" is
\* never taken.
C10_NamedRoutineCalled ==
    pc = "ll_integrating" =>
        /\ routine_called.name = integration_method
        /\ routine_called.branch = "else"
        /\ routine_called.u_prime = u_prime
        /\ routine_called.cov = cov
        /\ routine_called.y = y
        /\ integration_calls = IF entry = MP THEN n_iter ELSE 1

C10_Witness ==
    /\ pc = "ll_integrating"
    /\ cov_structure = "iid"
    /\ integration_method = "mc_integration"
    /\ routine_called.name = "mc_integration"
    /\ integration_calls = 1

=============================================================================
